---- MODULE Spec2Model ----
(***************************************************************************)
(* Turn orchestration of the chess trainer: App (state owner, resetGame,   *)
(* mission effect) and Board (handleSquareClick, the AI-move effect and    *)
(* its asynchronous makeAiMove), over a Rules Oracle (chess.js) that is    *)
(* consumed through the interface of the specification, section 6.        *)
(***************************************************************************)
EXTENDS Integers, Sequences, FiniteSets, TLC

\* ------------------------------------------------------------------ bounds

\* number of times resetGame may run (each run creates one more Chess object)
MaxResets == 1
\* number of makeAiMove invocations that can be suspended at the same time
MaxTasks == 2
\* the count of engine requests per ply saturates here
MaxCount == 2
\* length of the log feed beyond which nothing more is logged in a run
MaxLogs == 9
\* xp beyond which no further reward is followed
MaxXp == 1700
\* number of calls of the engine service that are followed at the same time
MaxCalls == 2
\* number of searches the worker has been told to do and has not answered
MaxQueue == 2
\* number of hint requests that wait for their answer at the same time
MaxHints == 1

\* ------------------------------------------------------- squares and tokens

FileNames == <<"a", "b", "c", "d", "e", "f", "g", "h">>
RankNames == <<"1", "2", "3", "4", "5", "6", "7", "8">>

\* a square is the two characters of its name, e.g. <<"e", "4">>
Square == {<<FileNames[f], RankNames[r]>> : f \in 1..8, r \in 1..8}

NoSquare == <<>>
NoPiece == [type |-> "-", color |-> "-"]
NoSan == "-"
NoPromotion == <<>>

\* String.prototype.substring(start, end) on a string held as a sequence of
\* characters: the characters at the 0-based indices start .. end-1 that exist
substring(s, start, end) ==
  SubSeq(s, start + 1, IF end < Len(s) THEN end ELSE Len(s))

\* ------------------------------------------------------------ Rules Oracle

\* a verbose chess.js Move; marks are the symbols that occur in its SAN
Mv(color, piece, from, to, san, marks) ==
  [color |-> color, piece |-> piece, from |-> from, to |-> to,
   san |-> san, marks |-> marks, promotion |-> NoPromotion]

\* a move that promotes the pawn to the piece of the letter
Promo(color, from, to, san, marks, letter) ==
  [Mv(color, "p", from, to, san, marks) EXCEPT !.promotion = << letter >>]

\* 1.h4 g5 2.hxg5 Nh6 3.gxh6 Bg7 4.hxg7 a6, White to promote on h8 or g8
WhitePromotionGame ==
  << Mv("w", "p", <<"h","2">>, <<"h","4">>, "h4", {}),
     Mv("b", "p", <<"g","7">>, <<"g","5">>, "g5", {}),
     Mv("w", "p", <<"h","4">>, <<"g","5">>, "hxg5", {"x"}),
     Mv("b", "n", <<"g","8">>, <<"h","6">>, "Nh6", {}),
     Mv("w", "p", <<"g","5">>, <<"h","6">>, "gxh6", {"x"}),
     Mv("b", "b", <<"f","8">>, <<"g","7">>, "Bg7", {}),
     Mv("w", "p", <<"h","6">>, <<"g","7">>, "hxg7", {"x"}),
     Mv("b", "p", <<"a","7">>, <<"a","6">>, "a6", {}) >>

\* 1.a3 h5 2.g4 hxg4 3.Nf3 gxf3 4.Bg2 fxg2 5.a4, Black to promote on h1 or g1
BlackPromotionGame ==
  << Mv("w", "p", <<"a","2">>, <<"a","3">>, "a3", {}),
     Mv("b", "p", <<"h","7">>, <<"h","5">>, "h5", {}),
     Mv("w", "p", <<"g","2">>, <<"g","4">>, "g4", {}),
     Mv("b", "p", <<"h","5">>, <<"g","4">>, "hxg4", {"x"}),
     Mv("w", "n", <<"g","1">>, <<"f","3">>, "Nf3", {}),
     Mv("b", "p", <<"g","4">>, <<"f","3">>, "gxf3", {"x"}),
     Mv("w", "b", <<"f","1">>, <<"g","2">>, "Bg2", {}),
     Mv("b", "p", <<"f","3">>, <<"g","2">>, "fxg2", {"x"}),
     Mv("w", "p", <<"a","3">>, <<"a","4">>, "a4", {}) >>

\* the promotions that end the two games, one line for each piece
PromotionLines ==
  { Append(WhitePromotionGame, m) :
      m \in { Promo("w", <<"g","7">>, <<"h","8">>, "gxh8=Q+", {"x", "+"}, "q"),
              Promo("w", <<"g","7">>, <<"h","8">>, "gxh8=R+", {"x", "+"}, "r"),
              Promo("w", <<"g","7">>, <<"h","8">>, "gxh8=B", {"x"}, "b"),
              Promo("w", <<"g","7">>, <<"h","8">>, "gxh8=N", {"x"}, "n"),
              Promo("w", <<"g","7">>, <<"g","8">>, "g8=Q+", {"+"}, "q"),
              Promo("w", <<"g","7">>, <<"g","8">>, "g8=N", {}, "n") } }
  \cup
  { Append(BlackPromotionGame, m) :
      m \in { Promo("b", <<"g","2">>, <<"h","1">>, "gxh1=Q+", {"x", "+"}, "q"),
              Promo("b", <<"g","2">>, <<"h","1">>, "gxh1=R+", {"x", "+"}, "r"),
              Promo("b", <<"g","2">>, <<"h","1">>, "gxh1=B", {"x"}, "b"),
              Promo("b", <<"g","2">>, <<"h","1">>, "gxh1=N", {"x"}, "n"),
              Promo("b", <<"g","2">>, <<"g","1">>, "g1=Q+", {"+"}, "q"),
              Promo("b", <<"g","2">>, <<"g","1">>, "g1=N", {}, "n") } }

\* The legal-move universe of the oracle: real games from the start position.
\* A move is legal in a position iff it continues one of these lines.
Book ==
  PromotionLines \cup
  { << Mv("w", "p", <<"f","2">>, <<"f","3">>, "f3", {}),
       Mv("b", "p", <<"e","7">>, <<"e","5">>, "e5", {}),
       Mv("w", "p", <<"g","2">>, <<"g","4">>, "g4", {}),
       Mv("b", "q", <<"d","8">>, <<"h","4">>, "Qh4#", {"#"}) >>,
    << Mv("w", "p", <<"e","2">>, <<"e","4">>, "e4", {}),
       Mv("b", "p", <<"f","7">>, <<"f","6">>, "f6", {}),
       Mv("w", "p", <<"d","2">>, <<"d","4">>, "d4", {}),
       Mv("b", "p", <<"g","7">>, <<"g","5">>, "g5", {}),
       Mv("w", "q", <<"d","1">>, <<"h","5">>, "Qh5#", {"#"}) >>,
    << Mv("w", "p", <<"e","2">>, <<"e","4">>, "e4", {}),
       Mv("b", "p", <<"e","7">>, <<"e","5">>, "e5", {}),
       Mv("w", "n", <<"g","1">>, <<"f","3">>, "Nf3", {}) >>,
    << Mv("w", "p", <<"e","2">>, <<"e","4">>, "e4", {}),
       Mv("b", "p", <<"d","7">>, <<"d","5">>, "d5", {}),
       Mv("w", "p", <<"e","4">>, <<"d","5">>, "exd5", {"x"}),
       Mv("b", "q", <<"d","8">>, <<"d","5">>, "Qxd5", {"x"}) >>,
    << Mv("w", "n", <<"g","1">>, <<"f","3">>, "Nf3", {}),
       Mv("b", "n", <<"g","8">>, <<"f","6">>, "Nf6", {}),
       Mv("w", "n", <<"f","3">>, <<"g","1">>, "Ng1", {}),
       Mv("b", "n", <<"f","6">>, <<"g","8">>, "Ng8", {}),
       Mv("w", "n", <<"g","1">>, <<"f","3">>, "Nf3", {}),
       Mv("b", "n", <<"g","8">>, <<"f","6">>, "Nf6", {}),
       Mv("w", "n", <<"f","3">>, <<"g","1">>, "Ng1", {}),
       Mv("b", "n", <<"f","6">>, <<"g","8">>, "Ng8", {}),
       Mv("w", "n", <<"g","1">>, <<"f","3">>, "Nf3", {}) >>,
    << Mv("w", "n", <<"g","1">>, <<"f","3">>, "Nf3", {}),
       Mv("b", "p", <<"d","7">>, <<"d","5">>, "d5", {}),
       Mv("w", "n", <<"f","3">>, <<"e","5">>, "Ne5", {}) >>,
    << Mv("w", "p", <<"f","2">>, <<"f","3">>, "f3", {}),
       Mv("b", "n", <<"g","8">>, <<"f","6">>, "Nf6", {}) >> }

\* new Chess(): the oracle's state is the verbose history of the moves made
NewChess == <<>>

\* Chess.turn()
Turn(g) == IF Len(g) % 2 = 0 THEN "w" ELSE "b"

\* Chess.moves({verbose: true}): the legal moves of the position
Moves(g) ==
  { l[Len(g) + 1] : l \in {k \in Book : Len(k) > Len(g) /\ SubSeq(k, 1, Len(g)) = g} }

\* Chess.moves({square, verbose: true})
MovesFrom(g, square) == {m \in Moves(g) : m.from = square}

\* Chess.history(): the SAN of every move made
History(g) == [i \in 1..Len(g) |-> g[i].san]

\* Chess.isCheck() / Chess.isCheckmate()
IsCheck(g) == Len(g) > 0 /\ g[Len(g)].marks \cap {"+", "#"} # {}
IsCheckmate(g) == Len(g) > 0 /\ "#" \in g[Len(g)].marks

BackRank == [f \in 1..8 |-> <<"r", "n", "b", "q", "k", "b", "n", "r">>[f]]

FileIndex(c) == CHOOSE f \in 1..8 : FileNames[f] = c

\* the board of new Chess()
StartBoard ==
  [sq \in Square |->
     IF sq[2] = "1" THEN [type |-> BackRank[FileIndex(sq[1])], color |-> "w"]
     ELSE IF sq[2] = "2" THEN [type |-> "p", color |-> "w"]
     ELSE IF sq[2] = "7" THEN [type |-> "p", color |-> "b"]
     ELSE IF sq[2] = "8" THEN [type |-> BackRank[FileIndex(sq[1])], color |-> "b"]
     ELSE NoPiece]

\* the board after one more move (castling also moves the rook)
BoardApply(b, m) ==
  LET moved == IF m.promotion # NoPromotion
               THEN [type |-> m.promotion[1], color |-> m.color]
               ELSE b[m.from]
      b1 == [b EXCEPT ![m.from] = NoPiece, ![m.to] = moved]
      rank == m.from[2]
  IN IF "O-O-O" \in m.marks
     THEN [b1 EXCEPT ![<<"a", rank>>] = NoPiece, ![<<"d", rank>>] = b[<<"a", rank>>]]
     ELSE IF "O-O" \in m.marks
     THEN [b1 EXCEPT ![<<"h", rank>>] = NoPiece, ![<<"f", rank>>] = b[<<"h", rank>>]]
     ELSE b1

RECURSIVE BoardAfter(_)
BoardAfter(g) ==
  IF g = <<>> THEN StartBoard
  ELSE BoardApply(BoardAfter(SubSeq(g, 1, Len(g) - 1)), g[Len(g)])

\* Chess.get(square): the piece on the square, NoPiece for none
Get(g, square) == BoardAfter(g)[square]

RECURSIVE HalfMoves(_)
HalfMoves(g) ==
  IF g = <<>> THEN 0
  ELSE IF g[Len(g)].piece = "p" \/ "x" \in g[Len(g)].marks THEN 0
  ELSE HalfMoves(SubSeq(g, 1, Len(g) - 1)) + 1

Castling(g) ==
  [c \in {"w", "b"} |-> \A i \in 1..Len(g) : ~(g[i].color = c /\ g[i].piece \in {"k", "r"})]

\* Chess.fen(): placement, side to move, castling rights and the move counters
Fen(g) ==
  [placement |-> BoardAfter(g), turn |-> Turn(g), castling |-> Castling(g),
   halfmove |-> HalfMoves(g), fullmove |-> 1 + (Len(g) \div 2)]

\* the positions the object has been in that equal its current one
Repetitions(g) ==
  {i \in 0..Len(g) :
     LET k == Fen(SubSeq(g, 1, i))
     IN /\ k.placement = Fen(g).placement
        /\ k.turn = Fen(g).turn
        /\ k.castling = Fen(g).castling}

\* Chess.isThreefoldRepetition()
IsThreefoldRepetition(g) == Cardinality(Repetitions(g)) >= 3

\* Chess.isDraw(): the fifty-move rule or a repetition (no line of the
\* legal-move universe ends in stalemate or with insufficient material)
IsDraw(g) == HalfMoves(g) >= 100 \/ IsThreefoldRepetition(g)

\* Chess.move({from, to, promotion}): the legal moves the object matches; the
\* promotion letter only counts for a move that promotes. No match: move throws.
MatchMove(g, from, to, promotion) ==
  {m \in Moves(g) : /\ m.from = from
                    /\ m.to = to
                    /\ (m.promotion = NoPromotion \/ m.promotion = promotion)}

\* Chess.move(san)
MatchSan(g, san) == {m \in Moves(g) : m.san = san}

\* ------------------------------------------------- Opponent Move Source

\* OPENINGS: the entries whose position the legal-move universe reaches, each
\* key given by the moves that lead to its position
OPENINGS ==
  { [key |-> <<"e4">>, name |-> "King's Pawn"],
    [key |-> <<"e4", "e5">>, name |-> "Open Game"],
    [key |-> <<"e4", "d5">>, name |-> "Scandinavian"] }

NoOpening == "-"

\* the game that reaches the position of an OPENINGS key
KeyGame(key) ==
  CHOOSE g \in {SubSeq(l, 1, Len(key)) : l \in {k \in Book : Len(k) >= Len(key)}} :
    History(g) = key

OpeningOf_WholeFen(fen) ==
  LET hits == {o \in OPENINGS : Fen(KeyGame(o.key)) = fen}
  IN IF hits = {} THEN NoOpening ELSE (CHOOSE o \in hits : TRUE).name

\* the opening lookup of getAiMoveAndCommentary: a key matches a position when
\* the placement, the side to move and the castling rights agree
OpeningOf(fen) ==
  LET hits == {o \in OPENINGS :
                 LET k == Fen(KeyGame(o.key))
                 IN /\ k.placement = fen.placement
                    /\ k.turn = fen.turn
                    /\ k.castling = fen.castling}
  IN IF hits = {} THEN NoOpening ELSE (CHOOSE o \in hits : TRUE).name

NoAnswer == <<>>

\* what the engine may answer to a request: a move token (legal or not in the
\* position it is applied to) or nothing
ReplyTokens ==
  { <<"e", "7", "e", "5">>, <<"d", "8", "h", "4">>, <<"d", "8", "d", "5">>,
    <<"g", "1", "f", "3">>, NoAnswer }

\* getAiMoveAndCommentary: null when the engine gave no best move
AiResult(fen, bestMove) ==
  IF bestMove = NoAnswer
  THEN [null |-> TRUE, move |-> NoAnswer, opening |-> NoOpening]
  ELSE [null |-> FALSE, move |-> bestMove, opening |-> OpeningOf(fen)]

generateCommentary_CaptureFirst(moveSan, isCheck, isCapture, isCastle, openingName) ==
  IF openingName # NoOpening THEN <<"protocol_match", openingName>>
  ELSE IF isCapture THEN <<"capture", moveSan>>
  ELSE IF isCheck THEN <<"check", moveSan>>
  ELSE IF isCastle THEN <<"castle", moveSan>>
  ELSE <<"good", moveSan>>

\* generateCommentary: the category of the phrase and the move it is about
generateCommentary(moveSan, isCheck, isCapture, isCastle, openingName) ==
  IF openingName # NoOpening THEN <<"protocol_match", openingName>>
  ELSE IF isCheck THEN <<"check", moveSan>>
  ELSE IF isCapture THEN <<"capture", moveSan>>
  ELSE IF isCastle THEN <<"castle", moveSan>>
  ELSE <<"good", moveSan>>

\* analyzeUserMove, from the marks of the SAN of the move
analyzeUserMove(m) ==
  generateCommentary(m.san,
                     m.marks \cap {"+", "#"} # {},
                     "x" \in m.marks,
                     m.marks \cap {"O-O", "O-O-O"} # {},
                     NoOpening)

\* --------------------------------------------------------------- App state

INITIAL_MISSIONS ==
  << [id |-> "m1", condition |-> "control_center", targetPiece |-> "-",
      xpReward |-> 50, completed |-> FALSE],
     [id |-> "m2", condition |-> "move_piece", targetPiece |-> "n",
      xpReward |-> 75, completed |-> FALSE],
     [id |-> "m3", condition |-> "castle", targetPiece |-> "-",
      xpReward |-> 100, completed |-> FALSE] >>

InitialStats == [level |-> "Intern", xp |-> 0, streak |-> 4, ticketsClosed |-> 0]

InitialLogs ==
  << [text |-> <<"booting kernel">>, author |-> "sys"],
     [text |-> <<"mounting file systems">>, author |-> "sys"],
     [text |-> <<"starting service">>, author |-> "sys"],
     [text |-> <<"ready">>, author |-> "sys"] >>

InstanceIds == 0..MaxResets
TaskIds == 1..MaxTasks

\* no makeAiMove invocation is suspended: nothing is held
IdleTask == [pc |-> "idle", inst |-> 0, fen |-> <<>>]

VARIABLES
  games,               \* the Chess objects ever created, by identity
  gameInstance,        \* App: the identity of the current Chess object
  gameState,           \* App: the GameSnapshot
  stats,               \* App: ProgressStats
  missions,            \* App: the mission list
  logs,                \* App: the log feed
  selectedSquare,      \* Board
  possibleMoves,       \* Board
  isAiThinking,        \* Board
  isProcessingTurnRef, \* Board: the ref that guards makeAiMove
  tasks,               \* the suspended makeAiMove invocations
  aiEffectDue,         \* a render changed the dependencies of the AI-move effect
  missionDeps,         \* the dependencies the mission effect last ran with
  levelDeps,           \* the dependencies the leveling effect last ran with
  plyCount,            \* history: snapshots committed after a move since the last reset
  requestsThisPly,     \* history: engine requests issued per Chess object in its current ply
  lastEvent,           \* history: the handler that ran last and how it ended
  engine,              \* geminiService: the Stockfish worker exists
  engineQueue,         \* the positions the worker has been told to search
  calls,               \* the calls of getBestMoveFromStockfish
  hintArrow,           \* App: the hint shown on the board
  hintsPending,        \* requestHint invocations that wait for getHint
  commentaryArgs,      \* the arguments of the last generateCommentary call
  commentary,          \* what that call returned
  lookupFens,          \* the positions of two opening lookups
  lookupNames,         \* the opening names found for them
  moveCall,            \* a move call on a Chess object, followed on its own
  moveMade             \* the moves that call may make (none: it throws)

vars ==
  << games, gameInstance, gameState, stats, missions, logs,
     selectedSquare, possibleMoves, isAiThinking, isProcessingTurnRef, tasks,
     aiEffectDue, missionDeps, levelDeps, plyCount, requestsThisPly, lastEvent,
     engine, engineQueue, calls, hintArrow, hintsPending,
     commentaryArgs, commentary, lookupFens, lookupNames, moveCall, moveMade >>

\* the state of App and Board
appVars ==
  << games, gameInstance, gameState, stats, missions, logs,
     selectedSquare, possibleMoves, isAiThinking, isProcessingTurnRef, tasks,
     aiEffectDue, missionDeps, levelDeps, plyCount, requestsThisPly, lastEvent,
     hintArrow, hintsPending >>

\* the calls of generateCommentary that are followed on their own
commentaryVars == << commentaryArgs, commentary >>

\* the opening lookups that are followed on their own
lookupVars == << lookupFens, lookupNames >>

\* the move calls that are followed on their own
moveVars == << moveCall, moveMade >>

NoMoveCall == <<>>

\* the state of the engine service; the specifications of the turn orchestration
\* take its answers from ReplyTokens and leave it as it is
serviceVars == << engine, engineQueue, calls, commentaryVars, lookupVars, moveVars >>

\* the hint App shows and the requests for one
hintVars == << hintArrow, hintsPending >>

NoHint == <<>>

NoArgs == <<>>

CallIds == 1..MaxCalls

\* a call slot that is not in use
NoCall == [state |-> "unused", pos |-> <<>>, bestMove |-> NoAnswer, replyFor |-> <<>>]

\* the snapshot updateState builds from a Chess object
updateState_KeepsTurn(g) ==
  [fen |-> Fen(g), turn |-> gameState.turn, isCheck |-> IsCheck(g),
   isCheckmate |-> IsCheckmate(g), history |-> History(g), captured |-> <<>>,
   lastMoveSan |-> IF Len(g) > 0 THEN g[Len(g)].san ELSE NoSan]

\* updateState, called on the Chess object a handler holds
updateState(g) ==
  [fen |-> Fen(g), turn |-> Turn(g), isCheck |-> IsCheck(g),
   isCheckmate |-> IsCheckmate(g), history |-> History(g), captured |-> <<>>,
   lastMoveSan |-> IF Len(g) > 0 THEN g[Len(g)].san ELSE NoSan]

\* the snapshot App starts with and resetGame installs
StartState(g) ==
  [fen |-> Fen(g), turn |-> "w", isCheck |-> FALSE, isCheckmate |-> FALSE,
   history |-> <<>>, captured |-> <<>>, lastMoveSan |-> NoSan]

addLog_NewestFirst(feed, text, author) ==
  << [text |-> text,
      author |-> IF author = "Consultant" THEN "audit" ELSE "root"] >> \o feed

\* addLog
addLog(feed, text, author) ==
  Append(feed, [text |-> text,
                author |-> IF author = "Consultant" THEN "audit" ELSE "root"])

\* the dependencies of the mission effect
MissionDeps == <<gameState.turn, gameState.lastMoveSan, gameInstance>>

\* the dependencies of the leveling effect
LevelDeps == <<stats.xp, stats.level>>

\* the run is followed while the feed has room for what a handler logs
LogRoom(n) == Len(logs) + n <= MaxLogs

\* lastEvent: a handler that ended in a way the state does not show; stale says
\* that it worked on a Chess object that is no longer the current one
Event(op, outcome, stale) == [op |-> op, outcome |-> outcome, stale |-> stale]

\* lastEvent after any other handler
Quiet == Event("-", "-", FALSE)

\* a render's effects have not run yet: React runs them before the next event
EffectsPending ==
  aiEffectDue \/ missionDeps # MissionDeps \/ levelDeps # LevelDeps

Init ==
  /\ games = [i \in InstanceIds |-> NewChess]
  /\ gameInstance = 0
  /\ gameState = StartState(NewChess)
  /\ stats = InitialStats
  /\ missions = INITIAL_MISSIONS
  /\ logs = InitialLogs
  /\ selectedSquare = NoSquare
  /\ possibleMoves = {}
  /\ isAiThinking = FALSE
  /\ isProcessingTurnRef = FALSE
  /\ tasks = [t \in TaskIds |-> IdleTask]
  /\ aiEffectDue = TRUE
  /\ missionDeps = <<"w", NoSan, 0>>
  /\ levelDeps = <<0, "Intern">>
  /\ plyCount = 0
  /\ requestsThisPly = [i \in InstanceIds |-> 0]
  /\ lastEvent = Quiet
  /\ engine = FALSE
  /\ engineQueue = <<>>
  /\ calls = [c \in CallIds |-> NoCall]
  /\ hintArrow = NoHint
  /\ hintsPending = 0
  /\ commentaryArgs = NoArgs
  /\ commentary = NoSan
  /\ lookupFens = <<>>
  /\ lookupNames = <<>>
  /\ moveCall = NoMoveCall
  /\ moveMade = {}

\* ------------------------------------------------------------------- Board

ClickBlocked_IgnoresThinking ==
  gameState.turn = "b" \/ gameState.isCheckmate

ClickBlocked_IgnoresCheckmate ==
  gameState.turn = "b" \/ isAiThinking

\* the guard at the head of handleSquareClick
ClickBlocked ==
  gameState.turn = "b" \/ isAiThinking \/ gameState.isCheckmate

moveFromSelection_AnyPromotion(g, from, to) ==
  {m \in Moves(g) : m.from = from /\ m.to = to}

moveFromSelection_AnyOrigin(g, from, to) == {m \in Moves(g) : m.to = to}

\* gameInstance.move({ from: selectedSquare, to: square, promotion: 'q' }): the
\* moves it may make, none when it throws
moveFromSelection(g, from, to) == MatchMove(g, from, to, <<"q">>)

\* handleSquareClick(square)
handleSquareClick(square) ==
  LET g == games[gameInstance]
      piece == Get(g, square)
      found == {m \in possibleMoves : m.to = square}
      applied == moveFromSelection(g, selectedSquare, square)
  IN
  IF ClickBlocked
  THEN /\ lastEvent' = Event("click", "rejected", FALSE)
       /\ UNCHANGED << games, gameInstance, gameState, stats, missions, logs,
                       selectedSquare, possibleMoves, isAiThinking,
                       isProcessingTurnRef, tasks, aiEffectDue, missionDeps,
                       plyCount, requestsThisPly, hintArrow >>
  ELSE IF selectedSquare # NoSquare /\ found # {}
  THEN IF applied # {}
       THEN \E m \in applied, shown \in found :
              LET g2 == Append(g, m) IN
              /\ games' = [games EXCEPT ![gameInstance] = g2]
              /\ gameState' = updateState(g2)
              /\ selectedSquare' = NoSquare
              /\ possibleMoves' = {}
              /\ LogRoom(1)
              /\ logs' = addLog(logs, analyzeUserMove(shown), "Consultant")
              /\ aiEffectDue' = TRUE
              /\ plyCount' = plyCount + 1
              /\ requestsThisPly' = [requestsThisPly EXCEPT ![gameInstance] = 0]
              /\ lastEvent' = Event("click", "moved", FALSE)
              /\ hintArrow' = NoHint
              /\ UNCHANGED << gameInstance, stats, missions,
                              isAiThinking, isProcessingTurnRef, tasks, missionDeps >>
       ELSE \* gameInstance.move threw
            /\ selectedSquare' = NoSquare
            /\ lastEvent' = Event("click", "threw", FALSE)
            /\ hintArrow' = NoHint
            /\ aiEffectDue' = (aiEffectDue \/ hintArrow # NoHint)
            /\ UNCHANGED << games, gameInstance, gameState, stats, missions, logs,
                            possibleMoves, isAiThinking,
                            isProcessingTurnRef, tasks, missionDeps,
                            plyCount, requestsThisPly >>
  ELSE /\ IF piece # NoPiece /\ piece.color = gameState.turn
          THEN /\ selectedSquare' = square
               /\ possibleMoves' = MovesFrom(g, square)
               /\ lastEvent' = Quiet
          ELSE IF selectedSquare # NoSquare
          THEN /\ selectedSquare' = NoSquare
               /\ possibleMoves' = {}
               /\ lastEvent' = Quiet
          ELSE /\ UNCHANGED << selectedSquare, possibleMoves >>
               /\ lastEvent' = Quiet
       \* clearHint: App renders again when a hint was shown
       /\ hintArrow' = NoHint
       /\ aiEffectDue' = (aiEffectDue \/ hintArrow # NoHint)
       /\ UNCHANGED << games, gameInstance, gameState, stats, missions, logs,
                       isAiThinking, isProcessingTurnRef, tasks,
                       missionDeps, plyCount, requestsThisPly >>

\* the squares the user clicks
ClickSquares ==
  { <<"e","2">>, <<"e","4">>, <<"f","2">>, <<"f","3">>, <<"g","2">>, <<"g","4">>,
    <<"d","2">>, <<"d","4">>, <<"d","1">>, <<"h","5">>, <<"g","1">>, <<"d","5">>,
    <<"e","7">>, <<"a","3">>, <<"e","5">> }

HumanClick ==
  /\ ~EffectsPending
  /\ UNCHANGED << levelDeps, serviceVars, hintsPending >>
  /\ \E square \in ClickSquares : handleSquareClick(square)

\* a slot for one more suspended makeAiMove invocation
FreeTask == CHOOSE t \in TaskIds : tasks[t].pc = "idle" /\ \A u \in 1..(t - 1) : tasks[u].pc # "idle"

\* the guards at the head of makeAiMove
MayStartAiMove_AnyTurn ==
  /\ ~gameState.isCheckmate
  /\ ~isProcessingTurnRef

MayStartAiMove ==
  /\ ~(gameState.turn # "b" \/ gameState.isCheckmate)
  /\ ~isProcessingTurnRef

\* The AI-move effect of a render: makeAiMove up to its first await. The
\* invocation keeps the gameInstance and the gameState of the render it is from.
AiMoveEffect ==
  /\ aiEffectDue
  /\ UNCHANGED << levelDeps, serviceVars, hintVars >>
  /\ aiEffectDue' = FALSE
  /\ IF MayStartAiMove
     THEN /\ \E t \in TaskIds : tasks[t].pc = "idle"
          /\ tasks' = [tasks EXCEPT ![FreeTask] =
                         [pc |-> "delay", inst |-> gameInstance, fen |-> gameState.fen]]
          /\ isProcessingTurnRef' = TRUE
          /\ isAiThinking' = TRUE
          /\ lastEvent' = Quiet
     ELSE /\ UNCHANGED << tasks, isProcessingTurnRef, isAiThinking >>
          /\ lastEvent' = IF gameState.turn = "b"
                           THEN Event("effect", "suppressed", FALSE)
                           ELSE Quiet
  /\ UNCHANGED << games, gameInstance, gameState, stats, missions, logs,
                  selectedSquare, possibleMoves, missionDeps, plyCount,
                  requestsThisPly >>

\* makeAiMove after the delay: the turn check on the Chess object it holds, then
\* the request to the Opponent Move Source
DelayElapsed(t) ==
  LET T == tasks[t] IN
  /\ ~EffectsPending
  /\ UNCHANGED << levelDeps, serviceVars, hintVars >>
  /\ T.pc = "delay"
  /\ IF Turn(games[T.inst]) # "b"
     THEN /\ isProcessingTurnRef' = FALSE
          /\ isAiThinking' = FALSE
          /\ tasks' = [tasks EXCEPT ![t] = IdleTask]
          /\ lastEvent' = Event("delay", "aborted", T.inst # gameInstance)
          /\ UNCHANGED requestsThisPly
     ELSE /\ tasks' = [tasks EXCEPT ![t].pc = "request"]
          /\ requestsThisPly' =
               [requestsThisPly EXCEPT ![T.inst] = IF @ < MaxCount THEN @ + 1 ELSE @]
          /\ lastEvent' = Quiet
          /\ UNCHANGED << isProcessingTurnRef, isAiThinking >>
  /\ UNCHANGED << games, gameInstance, gameState, stats, missions, logs,
                  selectedSquare, possibleMoves, aiEffectDue, missionDeps, plyCount >>

\* the log entry makeAiMove writes for the engine's move
MoveLog(m) ==
  IF "+" \in m.marks THEN <<"CRITICAL: DEADLOCK_RISK (check)">>
  ELSE IF "x" \in m.marks THEN <<"gc_collect", m.san>>
  ELSE <<"exec_pid", m.san>>

FallbackChoices_Skipped(g) == {}

\* the random fallback: gameInstance.moves(), any of which may be drawn
FallbackChoices(g) == {m.san : m \in Moves(g)}

\* gameInstance.move({ from, to, promotion: promotion || 'q' }) for the token
\* of the engine: the moves it may make, none when it throws
engineMove(g, move) ==
  LET from == substring(move, 0, 2)
      to == substring(move, 2, 4)
      promotion == IF Len(move) > 4 THEN substring(move, 4, 5)
                   ELSE NoPromotion
  IN MatchMove(g, from, to,
               IF promotion # NoPromotion THEN promotion ELSE <<"q">>)

finallyRelease_KeepsThinking ==
  /\ isProcessingTurnRef' = FALSE
  /\ UNCHANGED isAiThinking

\* the finally block of makeAiMove
finallyRelease ==
  /\ isProcessingTurnRef' = FALSE
  /\ isAiThinking' = FALSE

ReplyAwaited_SkipsDelay(t) == tasks[t].pc \in {"delay", "request"}

\* the invocation stands at await getAiMoveAndCommentary(...), which follows the
\* await of the one-second timer
ReplyAwaited(t) == tasks[t].pc = "request"

\* makeAiMove from the answer of the Opponent Move Source to its end
EngineReply(t, bestMove) ==
  LET T == tasks[t]
      g == games[T.inst]
      result == AiResult(T.fen, bestMove)
      applied == engineMove(g, result.move)
      withOpening == IF result.opening # NoOpening
                     THEN addLog(logs, <<"init_protocol", result.opening>>, "System")
                     ELSE logs
  IN
  /\ ~EffectsPending
  /\ UNCHANGED << levelDeps, serviceVars, hintVars >>
  /\ ReplyAwaited(t)
  /\ IF result.null
     THEN /\ lastEvent' = Event("reply", "none", T.inst # gameInstance)
          /\ UNCHANGED << games, gameState, logs, aiEffectDue, plyCount, requestsThisPly >>
     ELSE IF applied # {}
     THEN \E m \in applied :
            LET g2 == Append(g, m) IN
            /\ games' = [games EXCEPT ![T.inst] = g2]
            /\ LogRoom(Len(withOpening) - Len(logs) + 1)
            /\ logs' = addLog(withOpening, MoveLog(m), "System")
            /\ gameState' = updateState(g2)
            /\ aiEffectDue' = TRUE
            /\ plyCount' = plyCount + 1
            /\ requestsThisPly' = [requestsThisPly EXCEPT ![T.inst] = 0]
            /\ lastEvent' = Event("reply", "engine", T.inst # gameInstance)
     ELSE \* gameInstance.move threw: the random fallback
          IF FallbackChoices(g) # {}
          THEN \E san \in FallbackChoices(g) :
                 \E m \in MatchSan(g, san) :
                   LET g2 == Append(g, m) IN
                   /\ games' = [games EXCEPT ![T.inst] = g2]
                   /\ gameState' = updateState(g2)
                   /\ aiEffectDue' = TRUE
                   /\ plyCount' = plyCount + 1
                   /\ requestsThisPly' = [requestsThisPly EXCEPT ![T.inst] = 0]
                   /\ lastEvent' = Event("reply", "fallback", T.inst # gameInstance)
                   /\ UNCHANGED logs
          ELSE /\ lastEvent' = Event("reply", "nomove", T.inst # gameInstance)
               /\ UNCHANGED << games, gameState, logs, aiEffectDue, plyCount,
                               requestsThisPly >>
  /\ finallyRelease
  /\ tasks' = [tasks EXCEPT ![t] = IdleTask]
  /\ UNCHANGED << gameInstance, stats, missions, selectedSquare,
                  possibleMoves, missionDeps >>

DelayStep == \E t \in TaskIds : DelayElapsed(t)

ReplyStep == \E t \in TaskIds, bestMove \in ReplyTokens : EngineReply(t, bestMove)

\* --------------------------------------------------------------------- App

MissionMet_IgnoresCenter(mission, lastMoveObj, move) ==
  \/ mission.condition = "move_piece" /\ mission.targetPiece # "-"
       /\ lastMoveObj.piece = mission.targetPiece
  \/ mission.condition = "castle" /\ lastMoveObj.marks \cap {"O-O", "O-O-O"} # {}

MissionMet_FourCenter(mission, lastMoveObj, move) ==
  \/ mission.condition = "control_center"
       /\ lastMoveObj.to \in {<<"e","4">>, <<"d","4">>, <<"e","5">>, <<"d","5">>}
  \/ mission.condition = "move_piece" /\ mission.targetPiece # "-"
       /\ lastMoveObj.piece = mission.targetPiece
  \/ mission.condition = "castle" /\ lastMoveObj.marks \cap {"O-O", "O-O-O"} # {}

\* whether the last move completes a mission
MissionMet(mission, lastMoveObj, move) ==
  \/ mission.condition = "control_center" /\ lastMoveObj.to \in {<<"e","4">>, <<"d","4">>}
  \/ mission.condition = "move_piece" /\ mission.targetPiece # "-"
       /\ lastMoveObj.piece = mission.targetPiece
  \/ mission.condition = "castle" /\ lastMoveObj.marks \cap {"O-O", "O-O-O"} # {}

RECURSIVE TicketLogs(_, _, _)
TicketLogs(feed, ms, done) ==
  IF ms = <<>> THEN feed
  ELSE TicketLogs(IF Head(ms).id \in done
                  THEN addLog(feed, <<"TICKET_CLOSED", Head(ms).id>>, "System")
                  ELSE feed,
                  Tail(ms), done)

SumRewards_Debits(ms, done) == 0 - 25 * Cardinality(done)

SumRewards_FirstOnly(ms, done) ==
  IF ms = <<>> THEN 0 ELSE Head(ms).xpReward

RECURSIVE SumRewards(_, _)
SumRewards(ms, done) ==
  IF ms = <<>> THEN 0
  ELSE (IF Head(ms).id \in done THEN Head(ms).xpReward ELSE 0) + SumRewards(Tail(ms), done)

MissionCheckDue_AnyMove == gameState.lastMoveSan # NoSan

MissionCheckDue_Always == TRUE

\* the guard of the mission effect: the user just moved
MissionCheckDue == gameState.turn = "b" /\ gameState.lastMoveSan # NoSan

\* the mission effect: runs when turn, lastMoveSan or gameInstance changed
MissionEffect ==
  LET h == games[gameInstance]
      lastMoveObj == h[Len(h)]
      done == {missions[i].id : i \in {j \in 1..Len(missions) :
                 /\ ~missions[j].completed
                 /\ MissionMet(missions[j], lastMoveObj, gameState.lastMoveSan)}}
  IN
  /\ ~aiEffectDue
  /\ UNCHANGED << levelDeps, serviceVars, hintVars >>
  /\ missionDeps # MissionDeps
  /\ missionDeps' = MissionDeps
  /\ IF MissionCheckDue /\ Len(h) > 0 /\ done # {}
     THEN /\ missions' = [i \in 1..Len(missions) |->
                            IF missions[i].id \in done
                            THEN [missions[i] EXCEPT !.completed = TRUE]
                            ELSE missions[i]]
          /\ stats' = [stats EXCEPT !.xp = @ + SumRewards(missions, done),
                                    !.ticketsClosed = @ + Cardinality(done)]
          /\ LogRoom(Cardinality(done))
          /\ logs' = TicketLogs(logs, missions, done)
          /\ aiEffectDue' = TRUE
          /\ lastEvent' = Quiet
     ELSE /\ UNCHANGED << missions, stats, logs, aiEffectDue >>
          /\ lastEvent' = Quiet
  /\ UNCHANGED << games, gameInstance, gameState, selectedSquare,
                  possibleMoves, isAiThinking, isProcessingTurnRef, tasks, plyCount,
                  requestsThisPly >>

LevelAfter_AtThreshold(s) ==
  LET junior == IF s.xp >= 500 /\ s.level = "Intern" THEN "Junior Dev" ELSE s.level
  IN IF s.xp >= 1500 /\ s.level = "Junior Dev" THEN "Senior Dev" ELSE junior

\* the level after the two setStats calls of the leveling effect, both of which
\* test the stats of the render the effect is from
LevelAfter(s) ==
  LET junior == IF s.xp > 500 /\ s.level = "Intern" THEN "Junior Dev" ELSE s.level
  IN IF s.xp > 1500 /\ s.level = "Junior Dev" THEN "Senior Dev" ELSE junior

\* the leveling effect: runs when xp or level changed
LevelingEffect ==
  /\ ~aiEffectDue
  /\ levelDeps # LevelDeps
  /\ levelDeps' = LevelDeps
  /\ stats' = [stats EXCEPT !.level = LevelAfter(stats)]
  /\ aiEffectDue' = (stats'.level # stats.level)
  /\ lastEvent' = Quiet
  /\ UNCHANGED << games, gameInstance, gameState, missions, logs, selectedSquare,
                  possibleMoves, isAiThinking, isProcessingTurnRef, tasks,
                  missionDeps, plyCount, requestsThisPly, serviceVars, hintVars >>

\* the setStats calls of one run of the mission effect, for the missions it
\* completes, whichever game that is in (the stats outlive resetGame)
GrantReward ==
  \E done \in (SUBSET {INITIAL_MISSIONS[i].id : i \in 1..Len(INITIAL_MISSIONS)}) \ {{}} :
    /\ ~EffectsPending
    /\ stats.xp + SumRewards(INITIAL_MISSIONS, done) <= MaxXp
    /\ stats' = [stats EXCEPT !.xp = @ + SumRewards(INITIAL_MISSIONS, done),
                              !.ticketsClosed = @ + Cardinality(done)]
    /\ aiEffectDue' = TRUE
    /\ lastEvent' = Quiet
    /\ UNCHANGED << games, gameInstance, gameState, missions, logs, selectedSquare,
                    possibleMoves, isAiThinking, isProcessingTurnRef, tasks,
                    missionDeps, levelDeps, plyCount, requestsThisPly, serviceVars, hintVars >>

ClearedMissions_KeepsCompleted == missions

ClearedMissions_Toggled ==
  [i \in 1..Len(missions) |-> [missions[i] EXCEPT !.completed = ~@]]

\* INITIAL_MISSIONS.map(m => ({...m, completed: false}))
ClearedMissions ==
  [i \in 1..Len(INITIAL_MISSIONS) |-> [INITIAL_MISSIONS[i] EXCEPT !.completed = FALSE]]

\* resetGame
resetGame ==
  LET newGame == gameInstance + 1 IN
  /\ ~EffectsPending
  /\ UNCHANGED << levelDeps, serviceVars, hintsPending >>
  /\ hintArrow' = NoHint
  /\ gameInstance < MaxResets
  /\ games' = [games EXCEPT ![newGame] = NewChess]
  /\ gameInstance' = newGame
  /\ gameState' = StartState(NewChess)
  /\ missions' = ClearedMissions
  /\ LogRoom(1)
  /\ logs' = addLog(logs, <<"reboot sequence initiated. memory cleared.">>, "System")
  /\ aiEffectDue' = TRUE
  /\ plyCount' = 0
  /\ lastEvent' = Event("reset", "-", FALSE)
  /\ UNCHANGED << stats, selectedSquare, possibleMoves, isAiThinking,
                  isProcessingTurnRef, tasks, missionDeps, requestsThisPly >>

\* the view-mode button, setIsStealth(!isStealth): App renders again. The view
\* mode itself is read by the presentation only and is not kept.
ToggleStealth ==
  /\ ~EffectsPending
  /\ UNCHANGED << levelDeps, serviceVars, hintVars >>
  /\ aiEffectDue' = TRUE
  /\ lastEvent' = Quiet
  /\ UNCHANGED << games, gameInstance, gameState, stats, missions, logs,
                  selectedSquare, possibleMoves, isAiThinking, isProcessingTurnRef,
                  tasks, missionDeps, plyCount, requestsThisPly >>

Next ==
  \/ HumanClick
  \/ AiMoveEffect
  \/ DelayStep
  \/ ReplyStep
  \/ MissionEffect
  \/ LevelingEffect
  \/ resetGame
  \/ ToggleStealth

Spec == Init /\ [][Next]_vars

\* What the scheduling guarantees: a render's effects run and the delay timer
\* of makeAiMove fires. The engine's answer and the user's input are not owed.
FairSpec ==
  /\ Spec
  /\ WF_vars(AiMoveEffect)
  /\ WF_vars(MissionEffect)
  /\ WF_vars(LevelingEffect)
  /\ WF_vars(DelayStep)

\* the progress statistics alone, under any sequence of mission rewards
NextLevel ==
  \/ GrantReward
  \/ AiMoveEffect
  \/ LevelingEffect

LevelSpec == Init /\ [][NextLevel]_vars

\* --------------------------------------------------------------- the hints

\* what getHint may answer: a move to show with its log line, or null
HintAnswers == { NoHint, [from |-> <<"e", "2">>, to |-> <<"e", "4">>] }

\* requestHint up to its await: the log line, then the call of getHint
requestHint ==
  /\ ~EffectsPending
  /\ hintsPending < MaxHints
  /\ LogRoom(1)
  /\ logs' = addLog(logs, <<"running_diagnostics...">>, "System")
  /\ hintsPending' = hintsPending + 1
  /\ aiEffectDue' = TRUE
  /\ lastEvent' = Quiet
  /\ UNCHANGED << games, gameInstance, gameState, stats, missions,
                  selectedSquare, possibleMoves, isAiThinking, isProcessingTurnRef,
                  tasks, missionDeps, levelDeps, plyCount, requestsThisPly,
                  hintArrow, serviceVars >>

\* requestHint after getHint answered
HintReply(hint) ==
  /\ ~EffectsPending
  /\ hintsPending > 0
  /\ LogRoom(1)
  /\ IF hint # NoHint
     THEN /\ hintArrow' = [from |-> hint.from, to |-> hint.to]
          /\ logs' = addLog(logs, <<"hint.log">>, "System")
     ELSE /\ logs' = addLog(logs, <<"diagnostics_failed: engine_busy">>, "System")
          /\ UNCHANGED hintArrow
  /\ hintsPending' = hintsPending - 1
  /\ aiEffectDue' = TRUE
  /\ lastEvent' = Quiet
  /\ UNCHANGED << games, gameInstance, gameState, stats, missions,
                  selectedSquare, possibleMoves, isAiThinking, isProcessingTurnRef,
                  tasks, missionDeps, levelDeps, plyCount, requestsThisPly,
                  serviceVars >>

HintReplyStep == \E hint \in HintAnswers : HintReply(hint)

\* the squares clicked and the engine's answers in the games that are followed
\* with the diagnostics button: 1.e4 and 1.Nf3 and the replies to them
HintClickSquares == { <<"e","2">>, <<"e","4">>, <<"g","1">>, <<"f","3">> }

HintReplyTokens == { <<"e", "7", "e", "5">>, <<"d", "8", "h", "4">>, NoAnswer }

HintGameClick ==
  /\ ~EffectsPending
  /\ UNCHANGED << levelDeps, serviceVars, hintsPending >>
  /\ \E square \in HintClickSquares : handleSquareClick(square)

HintGameReply == \E t \in TaskIds, bestMove \in HintReplyTokens : EngineReply(t, bestMove)

\* the turn orchestration with the diagnostics button
NextHint ==
  \/ HintGameClick
  \/ AiMoveEffect
  \/ DelayStep
  \/ HintGameReply
  \/ MissionEffect
  \/ LevelingEffect
  \/ resetGame
  \/ ToggleStealth
  \/ requestHint
  \/ HintReplyStep

HintSpec == Init /\ [][NextHint]_vars

\* ------------------------------------------------------- the engine service

\* the positions a caller asks about, each given by the moves that lead to it
EnginePositions == { <<"e4">>, <<"f3">>, <<"Nf3">> }

\* the move the worker finds for a position
EngineBestMove(pos) ==
  IF pos = <<"e4">> THEN <<"e", "7", "e", "5">>
  ELSE IF pos = <<"f3">> THEN <<"e", "7", "e", "6">>
  ELSE <<"d", "7", "d", "5">>

NotReady_Hangs(pos) ==
  [state |-> "listening", pos |-> pos, bestMove |-> NoAnswer, replyFor |-> <<>>]

\* getBestMoveFromStockfish without a worker: resolve({ bestMove: '' })
NotReady(pos) ==
  [state |-> "resolved", pos |-> pos, bestMove |-> NoAnswer, replyFor |-> <<>>]

\* initEngine got the script and created the worker
initEngine ==
  /\ ~engine
  /\ engine' = TRUE
  /\ UNCHANGED << engineQueue, calls, appVars, commentaryVars, lookupVars, moveVars >>

\* getBestMoveFromStockfish(fen): without a worker it resolves at once; with
\* one it adds its listener and posts the position and the go command
getBestMoveFromStockfish(c, pos) ==
  /\ calls[c].state = "unused"
  /\ Len(engineQueue) < MaxQueue
  /\ IF ~engine
     THEN /\ calls' = [calls EXCEPT ![c] = NotReady(pos)]
          /\ UNCHANGED engineQueue
     ELSE /\ calls' = [calls EXCEPT ![c] =
                         [state |-> "listening", pos |-> pos,
                          bestMove |-> NoAnswer, replyFor |-> <<>>]]
          /\ engineQueue' = Append(engineQueue, pos)
  /\ UNCHANGED << engine, appVars, commentaryVars, lookupVars, moveVars >>

\* The worker posts the bestmove line of its oldest search: the message event
\* goes to every listener that is added, and each of them resolves its call
\* with the move of the line and removes itself. replyFor keeps the position
\* the line was computed for.
EngineBestmoveLine ==
  /\ engineQueue # <<>>
  /\ calls' = [c \in CallIds |->
                 IF calls[c].state = "listening"
                 THEN [calls[c] EXCEPT !.state = "resolved",
                                       !.bestMove = EngineBestMove(Head(engineQueue)),
                                       !.replyFor = Head(engineQueue)]
                 ELSE calls[c]]
  /\ engineQueue' = Tail(engineQueue)
  /\ UNCHANGED << engine, appVars, commentaryVars, lookupVars, moveVars >>

\* the caller has taken the result of a resolved call
CallReturns(c) ==
  /\ calls[c].state = "resolved"
  /\ calls' = [calls EXCEPT ![c] = NoCall]
  /\ UNCHANGED << engine, engineQueue, appVars, commentaryVars, lookupVars, moveVars >>

CallStep == \E c \in CallIds, pos \in EnginePositions : getBestMoveFromStockfish(c, pos)

ReturnStep == \E c \in CallIds : CallReturns(c)

NextEngine ==
  \/ initEngine
  \/ CallStep
  \/ EngineBestmoveLine
  \/ ReturnStep

EngineSpec == Init /\ [][NextEngine]_vars

\* ------------------------------------------------- the commentary function

\* the moves a commentary is asked for
CommentarySans == { "e4", "Qxd5", "Qh4#", "O-O" }

\* the names of the opening table, and none
OpeningNames == {o.name : o \in OPENINGS} \cup {NoOpening}

\* a call generateCommentary(moveSan, isStealth, isCheck, isCapture, isCastle,
\* openingName) with any arguments
Commentate ==
  /\ \E moveSan \in CommentarySans, isCheck \in BOOLEAN, isCapture \in BOOLEAN,
        isCastle \in BOOLEAN, openingName \in OpeningNames :
        /\ commentaryArgs' = [moveSan |-> moveSan, isCheck |-> isCheck,
                              isCapture |-> isCapture, isCastle |-> isCastle,
                              openingName |-> openingName]
        /\ commentary' = generateCommentary(moveSan, isCheck, isCapture, isCastle,
                                            openingName)
  /\ UNCHANGED << appVars, engine, engineQueue, calls, lookupVars, moveVars >>

CommentarySpec == Init /\ [][Commentate]_vars

\* ------------------------------------------------------ the opening lookup

\* the games whose positions are looked up: the first two plies of the lines
LookupGames == {SubSeq(l, 1, n) : l \in Book, n \in 0..2}

\* the position string of a game with any move counters
FenWith(g, halfmove, fullmove) ==
  [Fen(g) EXCEPT !.halfmove = halfmove, !.fullmove = fullmove]

\* two calls of getAiMoveAndCommentary with any two position strings: the
\* opening name each of them reports
Lookup ==
  /\ lookupFens = <<>>
  /\ \E g1 \in LookupGames, g2 \in LookupGames,
        h1 \in 0..MaxCount, h2 \in 0..MaxCount,
        f1 \in 1..MaxCount, f2 \in 1..MaxCount :
        LET fen1 == FenWith(g1, h1, f1)
            fen2 == FenWith(g2, h2, f2)
        IN /\ lookupFens' = << fen1, fen2 >>
           /\ lookupNames' = << OpeningOf(fen1), OpeningOf(fen2) >>
  /\ UNCHANGED << appVars, engine, engineQueue, calls, commentaryVars, moveVars >>

OpeningSpec == Init /\ [][Lookup]_vars

\* ---------------------------------------------------------- the promotions

\* the positions of the two promotion games, their last moves included
PromotionGames ==
  UNION {{SubSeq(l, 1, n) : n \in 0..Len(l)} : l \in PromotionLines}

\* the squares clicked in them
PromotionSquares ==
  { <<"g","7">>, <<"g","8">>, <<"h","8">>, <<"g","2">>, <<"g","1">>, <<"h","1">>,
    <<"a","2">>, <<"a","3">>, <<"a","4">>, <<"h","2">>, <<"h","4">>, <<"g","5">>,
    <<"h","6">>, <<"g","4">>, <<"f","3">>, <<"f","1">> }

\* the tokens the engine answers in them, with and without a promotion letter
PromotionTokens ==
  { <<"g","2","h","1">>, <<"g","2","h","1","q">>, <<"g","2","h","1","n">>,
    <<"g","2","h","1","r">>, <<"g","2","g","1">>, <<"g","2","g","1","n">>,
    <<"a","7","a","6">>, <<"g","7","g","5">>, <<"g","8","h","6">>,
    <<"f","8","g","7">>, <<"h","7","h","5">>, <<"h","5","g","4">>,
    <<"g","4","f","3">>, <<"f","3","g","2">>, <<"g","7","h","8">> }

\* handleSquareClick with the piece on from selected and its moves shown: the
\* entry of possibleMoves that find returns for the clicked square, and the call
\* of gameInstance.move
HumanMoveCall ==
  \E g \in PromotionGames, from \in PromotionSquares, to \in PromotionSquares :
    LET found == {m \in MovesFrom(g, from) : m.to = to} IN
    /\ Turn(g) = "w"
    /\ found # {}
    /\ \E shown \in found :
         moveCall' = [by |-> "human", history |-> History(g), from |-> from,
                      to |-> to, letter |-> NoPromotion, shown |-> shown.san]
    /\ moveMade' = moveFromSelection(g, from, to)
    /\ UNCHANGED << appVars, engine, engineQueue, calls, commentaryVars, lookupVars >>

\* makeAiMove with the token of the engine: the call of gameInstance.move
EngineMoveCall ==
  \E g \in PromotionGames, move \in PromotionTokens :
    /\ Turn(g) = "b"
    /\ moveCall' = [by |-> "engine", history |-> History(g),
                    from |-> substring(move, 0, 2), to |-> substring(move, 2, 4),
                    letter |-> substring(move, 4, 5), shown |-> NoSan]
    /\ moveMade' = engineMove(g, move)
    /\ UNCHANGED << appVars, engine, engineQueue, calls, commentaryVars, lookupVars >>

NextPromotion ==
  \/ HumanMoveCall
  \/ EngineMoveCall

PromotionSpec == Init /\ [][NextPromotion]_vars

\* ------------------------------------------------------------------ claims

\* a makeAiMove invocation is between its guard and its end
InFlight(t) == tasks[t].pc # "idle"

\* C1: a square click made while the snapshot's side to move is Black, while an
\* opponent turn is in flight or after checkmate changes neither any Chess
\* object nor the snapshot.
C1_BlockedClickChangesNothing ==
  [][ ( /\ \/ gameState.turn = "b"
           \/ \E t \in TaskIds : InFlight(t)
           \/ gameState.isCheckmate
        /\ HumanClick )
      => UNCHANGED << games, gameState >> ]_vars

\* a click was rejected while White is to move in the snapshot and an opponent
\* turn is still in flight
C1_Witness ==
  /\ lastEvent = Event("click", "rejected", FALSE)
  /\ gameState.turn = "w"
  /\ ~gameState.isCheckmate
  /\ \E t \in TaskIds : InFlight(t)

\* C2: when Black is to move in a position that is not terminal and has a legal
\* move and the Opponent Move Source gives no answer, the opponent handler
\* commits exactly one legal Black move and the snapshot leaves Black's turn.
C2_NoAnswerCommitsOneMove ==
  [][ \A t \in TaskIds :
        ( /\ EngineReply(t, NoAnswer)
          /\ tasks[t].inst = gameInstance
          /\ gameState.turn = "b" /\ ~gameState.isCheckmate
          /\ Moves(games[gameInstance]) # {} )
        => /\ \E m \in Moves(games[gameInstance]) :
                games'[gameInstance] = Append(games[gameInstance], m)
           /\ gameState'.turn = "w" \/ gameState'.isCheckmate ]_vars

\* C3: the completion of an opponent turn that was started before a reset
\* changes neither the snapshot nor the log feed.
C3_LateCompletionDiscarded ==
  [][ \A t \in TaskIds :
        ( /\ InFlight(t)
          /\ tasks[t].inst # gameInstance
          /\ tasks'[t].pc = "idle" )
        => UNCHANGED << gameState, logs >> ]_vars

\* C4: at most one opponent turn is in flight at any time, and during one Black
\* ply at most one engine request is issued.
C4_OneTurnOneRequestPerPly ==
  /\ Cardinality({t \in TaskIds : InFlight(t)}) <= 1
  /\ \A i \in InstanceIds : requestsThisPly[i] <= 1

\* the token as makeAiMove reads it is no legal move of the position
IllegalToken(g, token) ==
  MatchMove(g, substring(token, 0, 2), substring(token, 2, 4), <<"q">>) = {}

\* C5: when the Opponent Move Source returns a token that is no legal move of
\* the current position, the opponent handler applies one move of the Rules
\* Oracle's legal-move list instead and commits the snapshot of the result.
C5_IllegalTokenFallsBack ==
  [][ lastEvent'.op = "reply" =>
      \A t \in TaskIds : \A token \in ReplyTokens \ {NoAnswer} :
        ( /\ tasks[t].pc = "request"
          /\ tasks[t].inst = gameInstance
          /\ IllegalToken(games[gameInstance], token)
          /\ Moves(games[gameInstance]) # {}
          /\ EngineReply(t, token) )
        => /\ \E m \in Moves(games[gameInstance]) :
                games'[gameInstance] = Append(games[gameInstance], m)
           /\ gameState' = updateState(games'[gameInstance])
           /\ gameState'.turn = "w" ]_vars

\* the opponent handler fell back to a random legal move in the current game
C5_Witness ==
  /\ lastEvent = Event("reply", "fallback", FALSE)
  /\ gameState.turn = "w"
  /\ Len(games[gameInstance]) > 0

\* C6: after N snapshots committed for a move since the last reset the side to
\* move is White if N is even and Black if N is odd.
C6_PlyParity ==
  (plyCount % 2 = 0) <=> (gameState.turn = "w")

\* C7: resetGame installs a new Chess object and a snapshot at the starting
\* position with White to move, no check, no checkmate and an empty history,
\* and marks every mission as not completed.
C7_ResetInstallsStart ==
  [][ lastEvent'.op = "reset"
      => /\ gameInstance' # gameInstance
         /\ games'[gameInstance'] = NewChess
         /\ gameState'.fen = Fen(NewChess)
         /\ gameState'.turn = "w"
         /\ ~gameState'.isCheck /\ ~gameState'.isCheckmate
         /\ gameState'.history = <<>>
         /\ \A i \in 1..Len(missions') : ~missions'[i].completed ]_vars

\* resetGame ran after a mission had been completed and moves had been made
C7_Witness ==
  /\ lastEvent.op = "reset"
  /\ stats.ticketsClosed > 0
  /\ \A i \in 1..Len(missions) : ~missions[i].completed
  /\ gameState.history = <<>>

\* C8: resetGame returns ProgressStats to its defaults.
C8_ResetRestoresStats ==
  [][ lastEvent'.op = "reset" => stats' = InitialStats ]_vars

\* the human can select a White piece and has a legal move for it
HumanCanMove ==
  /\ ~ClickBlocked
  /\ \E sq \in Square :
       /\ Get(games[gameInstance], sq).color = "w"
       /\ MovesFrom(games[gameInstance], sq) # {}

\* C9: resetGame leads to a state in which the human can select a White piece
\* and submit a legal move, whatever state it is issued in.
C9_ResetUnblocksHuman ==
  [][ lastEvent'.op = "reset" => HumanCanMove' ]_vars

\* C10: once the snapshot reports checkmate, no step but resetGame changes a
\* Chess object or the snapshot.
C10_TerminalAbsorbing ==
  [][ gameState.isCheckmate
      => \/ UNCHANGED << games, gameState >>
         \/ lastEvent'.op = "reset" ]_vars

\* a click was rejected in a snapshot that reports checkmate while the current
\* Chess object still has legal moves for White
C10_Witness ==
  /\ gameState.isCheckmate
  /\ lastEvent = Event("click", "rejected", FALSE)
  /\ Moves(games[gameInstance]) # {}

\* C11: in a committed position that the Rules Oracle reports as drawn, the
\* human cannot submit a move and no opponent turn can start.
C11_DrawIsTerminal ==
  ( /\ IsDraw(games[gameInstance])
    /\ gameState = updateState(games[gameInstance]) )
  => ~HumanCanMove /\ ~MayStartAiMove

\* C12: the snapshot's side to move is the side to move of its position, and
\* its history is as long as the number of snapshots committed for a move since
\* the last reset.
C12_SnapshotConsistent ==
  /\ gameState.turn = gameState.fen.turn
  /\ Len(gameState.history) = plyCount

\* the human's moves in the current game that landed on e4 or d4
CenterMoves ==
  {i \in 1..Len(games[gameInstance]) :
     /\ games[gameInstance][i].color = "w"
     /\ games[gameInstance][i].to \in {<<"e","4">>, <<"d","4">>}}

\* C13: once the mission effect has run for the last commit, mission m1 is
\* completed exactly if the human has made a move to e4 or d4 since the last
\* reset; and a completed m1 stays completed until resetGame.
C13_M1CompletesOnCenterMove ==
  [][ /\ (missionDeps' = MissionDeps') =>
           (missions'[1].completed <=> CenterMoves' # {})
      /\ (missions[1].completed /\ lastEvent'.op # "reset") =>
           missions'[1].completed ]_vars

\* m1 was completed by the human's first move and is still completed after the
\* human's second move, the effects of which have run
C13_Witness ==
  /\ missions[1].completed
  /\ missionDeps = MissionDeps
  /\ CenterMoves = {1}
  /\ Len(games[gameInstance]) >= 3

\* the mission effect runs for a commit of a human move to one of the squares
HumanMoveTo(squares) ==
  LET h == games[gameInstance] IN
  /\ MissionEffect
  /\ gameState.turn = "b"
  /\ Len(h) > 0
  /\ gameState.lastMoveSan = h[Len(h)].san
  /\ h[Len(h)].color = "w"
  /\ h[Len(h)].to \in squares

\* C14 (as the code has it): the center-control condition is met by a human
\* move to e4 or d4 only; a human move that lands on d5 or e5 leaves the
\* center-control mission as it was.
C14_OnlyE4D4Complete ==
  [][ HumanMoveTo({<<"d","5">>, <<"e","5">>}) => missions'[1] = missions[1] ]_vars

\* the mission effect has run for a human move to e5 and m1 is not completed
C14_Witness ==
  LET h == games[gameInstance] IN
  /\ Len(h) > 0
  /\ h[Len(h)].color = "w"
  /\ h[Len(h)].to = <<"e","5">>
  /\ gameState = updateState(h)
  /\ missionDeps = MissionDeps
  /\ ~missions[1].completed

\* C14 (as stated): a human move that lands on any of d4, e4, d5, e5 completes
\* the center-control mission.
C14_FourCenterSquares ==
  [][ HumanMoveTo({<<"d","4">>, <<"e","4">>, <<"d","5">>, <<"e","5">>})
      => missions'[1].completed ]_vars

\* the missions a step completes
NewlyCompleted ==
  {missions[i].id : i \in {j \in 1..Len(missions) :
     ~missions[j].completed /\ missions'[j].completed}}

\* the rewards the mission list configures for the missions named
RewardsOf(ids) ==
  LET r(i) == IF INITIAL_MISSIONS[i].id \in ids THEN INITIAL_MISSIONS[i].xpReward ELSE 0
  IN r(1) + r(2) + r(3)

\* C15: a completed mission stays completed until resetGame, so that between
\* two resets its flag turns from false to true at most once; and every step
\* adds to xp exactly the rewards of the missions it completes and to
\* ticketsClosed exactly their number.
C15_RewardCreditedOnce ==
  [][ /\ \A i \in 1..Len(missions) :
           (missions[i].completed /\ lastEvent'.op # "reset") => missions'[i].completed
      /\ stats'.xp = stats.xp + RewardsOf(NewlyCompleted)
      /\ stats'.ticketsClosed = stats.ticketsClosed + Cardinality(NewlyCompleted) ]_vars

\* m1 and m2 have been completed by two human moves of one game and both
\* rewards have been credited
C15_Witness ==
  /\ missions[1].completed /\ missions[2].completed
  /\ Len(games[gameInstance]) >= 3
  /\ stats.xp = 125
  /\ stats.ticketsClosed = 2

\* C16: a mission is completed and xp changes only when the mission effect
\* evaluates a committed move of the human (White); no opponent move, fallback
\* move, reset or late opponent reply does either.
C16_OnlyHumanMovesEvaluated ==
  [][ (NewlyCompleted # {} \/ stats'.xp # stats.xp) => HumanMoveTo(Square) ]_vars

\* the opponent's knight move was committed and the mission effect has run for
\* it while the knight mission is still open
C16_Witness ==
  LET h == games[gameInstance] IN
  /\ Len(h) = 2
  /\ h[2].color = "b" /\ h[2].piece = "n"
  /\ gameState = updateState(h)
  /\ missionDeps = MissionDeps
  /\ ~missions[2].completed
  /\ stats.xp = 0

\* C17: ticketsClosed is the number of missions that are marked completed.
C17_TicketsCountCompleted ==
  stats.ticketsClosed = Cardinality({i \in 1..Len(missions) : missions[i].completed})

\* C18: once the leveling effect has run for the current xp and level, the
\* level is Intern for xp <= 500, Junior Dev for 500 < xp <= 1500 and Senior
\* Dev for xp > 1500, whatever increments led to that xp.
C18_LevelFunctionOfXp ==
  levelDeps = LevelDeps =>
    stats.level = IF stats.xp <= 500 THEN "Intern"
                  ELSE IF stats.xp <= 1500 THEN "Junior Dev"
                  ELSE "Senior Dev"

\* the leveling effect has run for an xp beyond 1500
C18_Witness ==
  /\ levelDeps = LevelDeps
  /\ stats.xp > 1500
  /\ stats.level = "Senior Dev"

\* C19: xp is never negative and no step lowers it; a step that changes it is
\* the mission effect adding the rewards of the missions it completes.
C19_XpMonotonic ==
  [][ /\ stats.xp >= 0
      /\ stats'.xp >= stats.xp
      /\ stats'.xp # stats.xp =>
           /\ MissionEffect
           /\ NewlyCompleted # {}
           /\ stats'.xp - stats.xp = RewardsOf(NewlyCompleted) ]_vars

\* a reward has been credited and the opponent's turn that followed is over
C19_Witness ==
  /\ stats.xp = 50
  /\ Len(games[gameInstance]) >= 2
  /\ gameState = updateState(games[gameInstance])
  /\ gameState.turn = "w"
  /\ ~EffectsPending

\* C20: an opponent turn whose engine request is outstanding eventually ends
\* and releases the in-flight guard, whether or not the engine ever answers.
C20_RequestEventuallyCompletes ==
  (\E t \in TaskIds : tasks[t].pc = "request") ~> ~isProcessingTurnRef

\* C21: a call of the engine service made while there is no worker does not
\* stay pending and does not fail: it resolves at once with the empty move,
\* which getAiMoveAndCommentary hands to its caller as null.
C21_NotReadyResolvesNoAnswer ==
  [][ \A c \in CallIds : \A pos \in EnginePositions :
        (~engine /\ getBestMoveFromStockfish(c, pos))
        => /\ calls'[c].state = "resolved"
           /\ calls'[c].bestMove = NoAnswer
           /\ AiResult(Fen(KeyGame(pos)), calls'[c].bestMove).null ]_vars

\* a call made without a worker has resolved with the empty move
C21_Witness ==
  /\ ~engine
  /\ \E c \in CallIds : calls[c].state = "resolved" /\ calls[c].bestMove = NoAnswer

\* C22: a call that resolved with a move resolved with the bestmove line the
\* worker computed for the position of that call.
C22_ReplyMatchesRequest ==
  \A c \in CallIds :
    (calls[c].state = "resolved" /\ calls[c].bestMove # NoAnswer)
    => calls[c].replyFor = calls[c].pos

\* the categories of commentary, highest priority first
CommentaryPriority == << "protocol_match", "check", "capture", "castle", "good" >>

\* the category applies to the arguments of a call
CategoryApplies(cat, a) ==
  \/ cat = "protocol_match" /\ a.openingName # NoOpening
  \/ cat = "check" /\ a.isCheck
  \/ cat = "capture" /\ a.isCapture
  \/ cat = "castle" /\ a.isCastle
  \/ cat = "good"

\* C23: for every combination of opening name, check, capture and castle the
\* commentary is of the first category in the order opening, check, capture,
\* castle, generic that applies to the arguments.
C23_CommentaryByPriority ==
  commentaryArgs # NoArgs =>
    \E i \in 1..Len(CommentaryPriority) :
      /\ commentary[1] = CommentaryPriority[i]
      /\ CategoryApplies(CommentaryPriority[i], commentaryArgs)
      /\ \A j \in 1..(i - 1) : ~CategoryApplies(CommentaryPriority[j], commentaryArgs)

\* a checking capture without an opening name got a check phrase
C23_Witness ==
  /\ commentaryArgs # NoArgs
  /\ commentaryArgs.openingName = NoOpening
  /\ commentaryArgs.isCheck /\ commentaryArgs.isCapture /\ commentaryArgs.isCastle
  /\ commentary[1] = "check"

\* a step applied a move to one of the Chess objects
MoveCommitted ==
  \E i \in InstanceIds : Len(games'[i]) > Len(games[i])

\* C24: every step that commits a move, the human's, the engine's or the random
\* fallback's, appends at least one entry to the log feed.
C24_EveryCommitLogs ==
  [][ MoveCommitted => Len(logs') > Len(logs) ]_vars

\* the feed keeps every entry it had, in place
FeedKept == Len(logs') >= Len(logs) /\ SubSeq(logs', 1, Len(logs)) = logs

\* C25 as amended: no step removes, reorders or rewrites an entry of the feed;
\* the four entries the feed starts with are tagged 'sys' and every entry
\* appended after them is tagged 'audit' or 'root'.
C25_FeedAppendOnly ==
  [][ /\ FeedKept
      /\ \A i \in 1..Len(logs') :
           IF i <= Len(InitialLogs) THEN logs'[i].author = "sys"
           ELSE logs'[i].author \in {"audit", "root"} ]_vars

\* the feed holds an entry of a human move, of a reset and of a hint request
C25_Witness ==
  /\ \E i \in 1..Len(logs) : logs[i].author = "audit"
  /\ \E i \in 1..Len(logs) : logs[i].text = <<"reboot sequence initiated. memory cleared.">>
  /\ \E i \in 1..Len(logs) : logs[i].text = <<"hint.log">>
  /\ hintArrow = NoHint

\* C25 as stated: every entry of the feed is tagged 'audit' or 'root'.
C25_TwoSourcesOnly ==
  \A i \in 1..Len(logs) : logs[i].author \in {"audit", "root"}

C27_OnlyLegalHumanMoves ==
  [][ HumanClick =>
        LET g == games[gameInstance] IN
        IF MoveCommitted
        THEN /\ selectedSquare # NoSquare
             /\ Get(g, selectedSquare) # NoPiece
             /\ Get(g, selectedSquare).color = "w"
             /\ \E m \in MovesFrom(g, selectedSquare) :
                  games' = [games EXCEPT ![gameInstance] = Append(g, m)]
        ELSE UNCHANGED << games, gameState >> ]_vars

\* the e4 pawn was selected after 1.e4 d5, the game was reset and d5 was
\* clicked: the oracle refused e4xd5 in the new game
C27_Witness ==
  /\ lastEvent = Event("click", "threw", FALSE)
  /\ gameInstance > 0
  /\ \E m \in possibleMoves : m.san = "exd5"

\* the square holds no piece of the human's color in the current game
NotOwnSquare(square) ==
  LET piece == Get(games[gameInstance], square)
  IN piece = NoPiece \/ piece.color # "w"

\* C28: the target list is empty while clicks are refused (Black to move, the
\* opponent thinking, or checkmate), it is empty after a click on an empty or
\* opponent-owned square, and a click that commits no move leaves the Chess
\* objects and the snapshot as they are.
C28_TargetsOnlyForOwnSelection ==
  /\ [](ClickBlocked => possibleMoves = {})
  /\ [][ \A square \in ClickSquares :
           (~ClickBlocked /\ ~EffectsPending /\ handleSquareClick(square))
           => /\ NotOwnSquare(square) => possibleMoves' = {}
              /\ ~MoveCommitted => UNCHANGED << games, gameState >> ]_vars

\* Board's lastMove: the last move of the history of the game it displays
lastMove ==
  LET h == games[gameInstance]
  IN IF Len(h) = 0 THEN <<>> ELSE << h[Len(h)] >>

\* C29: a step that applies a move to a Chess object commits the snapshot of
\* that object in the same step, and in every state the snapshot's side to move
\* is the side to move of the displayed game (the side that did not make its
\* last move, White when it has no history) and agrees with the snapshot's own
\* history and last move.
C29_MoveAndSnapshotAtomic ==
  /\ [][ \A i \in InstanceIds :
           Len(games'[i]) > Len(games[i])
           => /\ gameState'.history = History(games'[i])
              /\ gameState'.turn = Turn(games'[i]) ]_vars
  /\ [](/\ gameState.turn = Turn(games[gameInstance])
        /\ lastMove # <<>> => lastMove[1].color # gameState.turn
        /\ lastMove = <<>> => gameState.turn = "w"
        /\ gameState.turn = (IF Len(gameState.history) % 2 = 0 THEN "w" ELSE "b")
        /\ gameState.lastMoveSan =
             (IF gameState.history = <<>> THEN NoSan
              ELSE gameState.history[Len(gameState.history)]))

\* the opponent's move was committed for a game that had been reset: the
\* snapshot shows the old game's history beside the new game
C29_Witness ==
  /\ lastEvent.op = "reply"
  /\ lastEvent.stale
  /\ lastEvent.outcome \in {"engine", "fallback"}
  /\ gameState.history # History(games[gameInstance])

\* a step appended a move of Black to the Chess object i
OpponentMoveApplied(i) ==
  /\ Len(games'[i]) = Len(games[i]) + 1
  /\ games'[i][Len(games'[i])].color = "b"

\* C30: a move of the opponent is applied only by the step in which an
\* invocation of makeAiMove receives the reply to its request, and a request is
\* made only by an invocation whose thinking delay has elapsed.
C30_MoveAfterDelayAndReply ==
  [][ /\ \A i \in InstanceIds :
           OpponentMoveApplied(i)
           => \E t \in TaskIds : /\ tasks[t].pc = "request"
                                 /\ tasks[t].inst = i
                                 /\ tasks'[t].pc = "idle"
      /\ \A t \in TaskIds :
           (tasks'[t].pc = "request" /\ tasks[t].pc # "request")
           => tasks[t].pc = "delay" ]_vars

\* the engine's move was applied to the current game
C30_Witness ==
  /\ lastEvent = Event("reply", "engine", FALSE)
  /\ Len(games[gameInstance]) > 0
  /\ games[gameInstance][Len(games[gameInstance])].color = "b"
  /\ \A t \in TaskIds : tasks[t].pc = "idle"

\* C31: the opponent handler never moves for White: while an invocation of
\* makeAiMove is in flight the Chess object it holds has Black to move, and the
\* move it applies, the engine's or the fallback's, is a move of Black made with
\* Black to move.
C31_OpponentMovesBlackOnly ==
  /\ [](\A t \in TaskIds :
          tasks[t].pc # "idle" => Turn(games[tasks[t].inst]) = "b")
  /\ [][ (lastEvent'.op = "reply" /\ lastEvent'.outcome \in {"engine", "fallback"})
         => \E t \in TaskIds :
              LET i == tasks[t].inst IN
              /\ tasks[t].pc = "request"
              /\ tasks'[t].pc = "idle"
              /\ Turn(games[i]) = "b"
              /\ Len(games'[i]) = Len(games[i]) + 1
              /\ games'[i][Len(games'[i])].color = "b" ]_vars

\* the fallback moved for a game that had been reset while the request was out
C31_Witness ==
  /\ lastEvent = Event("reply", "fallback", TRUE)
  /\ Turn(games[gameInstance]) = "w"

\* C32: whenever no invocation of makeAiMove is between taking the guard and
\* its end, isProcessingTurnRef and isAiThinking are both false.
C32_GuardReleasedWhenIdle ==
  (\A t \in TaskIds : tasks[t].pc = "idle")
  => ~isProcessingTurnRef /\ ~isAiThinking

\* an invocation ended on a null reply and left no other in flight
C32_Witness ==
  /\ lastEvent.op = "reply"
  /\ lastEvent.outcome = "none"
  /\ \A t \in TaskIds : tasks[t].pc = "idle"
  /\ ~isProcessingTurnRef

\* C33: when the mission effect evaluates the mission conditions, the history
\* of the current Chess object is not empty and its last move is a move of White
\* whose SAN is the lastMoveSan of the snapshot that is evaluated.
C33_MissionReadsHumanMove ==
  [][ (missionDeps' # missionDeps /\ MissionCheckDue)
      => LET h == games[gameInstance] IN
         /\ Len(h) > 0
         /\ h[Len(h)].color = "w"
         /\ h[Len(h)].san = gameState.lastMoveSan ]_vars

\* the mission effect has evaluated a human move made after a reset, before the
\* opponent's invocation for it began
C33_Witness ==
  /\ gameInstance > 0
  /\ gameState.turn = "b"
  /\ gameState.lastMoveSan # NoSan
  /\ missionDeps = MissionDeps
  /\ Len(games[gameInstance]) = 1
  /\ \E i \in 1..Len(missions) : missions[i].completed

\* the two position strings differ in their move counters at most
SamePositionPrefix ==
  /\ lookupFens[1].placement = lookupFens[2].placement
  /\ lookupFens[1].turn = lookupFens[2].turn
  /\ lookupFens[1].castling = lookupFens[2].castling

ReachesLastRank(m) == m.piece = "p" /\ m.to[2] \in {"1", "8"}

\* C35: the move a click commits goes from the selected square to the clicked
\* one and, for a pawn reaching the last rank, promotes to a queen, whichever
\* promotion of that destination was found in possibleMoves; the engine's token
\* is applied with the promotion of its letter and, when it has no letter, with
\* promotion to a queen.
C35_PromotionDefaultsToQueen ==
  moveCall # NoMoveCall =>
    \A m \in moveMade :
      /\ m.from = moveCall.from
      /\ m.to = moveCall.to
      /\ ReachesLastRank(m) =>
           m.promotion = (IF moveCall.letter = NoPromotion THEN <<"q">>
                          ELSE moveCall.letter)

\* the knight promotion on h8 was the entry found in possibleMoves and the call
\* made the queen promotion
C35_Witness ==
  /\ moveCall # NoMoveCall
  /\ moveCall.by = "human"
  /\ moveCall.shown = "gxh8=N"
  /\ \E m \in moveMade : m.san = "gxh8=Q+"

====
